---- MODULE Spec2Model ----
(***************************************************************************)
(* A model of src/src/BranchEvent.js: the BranchEvent class (constructor,  *)
(* logEvent, _identFromMessage, _convertParams) and                        *)
(* createBranchUniversalObject with the object it returns (_newIdent,      *)
(* _tryFunction and the operations built on them), run against a native    *)
(* module RNBranch whose answers are nondeterministic.                      *)
(***************************************************************************)
EXTENDS Integers, Sequences, FiniteSets, TLC

(***************************************************************************)
(* Bounds of the model.                                                     *)
(***************************************************************************)
\* largest magnitude of a numeric input (two digits, so that the decimal
\* representation is longer than one character)
MaxNum == 12
\* number of keys a caller sets in one params object of the normalisation runs
MaxParamKeys == 2
\* number of handles the native module issues in one behaviour
MaxHandles == 3

(***************************************************************************)
(* JavaScript values.  A value is a record tagged with its typeof class.    *)
(* Strings are sequences of characters; objects are functions from their    *)
(* own enumerable keys to values.                                           *)
(***************************************************************************)
Undefined == [t |-> "undefined"]
Null == [t |-> "null"]
Num(n) == [t |-> "number", n |-> n]
Str(s) == [t |-> "string", s |-> s]
Obj(o) == [t |-> "object", o |-> o]

\* the result of the typeof operator
TypeOf(v) == IF v.t = "null" THEN "object" ELSE v.t

\* ToBoolean, as applied by `if (x)` and `x || y`
Truthy(v) ==
  CASE v.t = "undefined" -> FALSE
    [] v.t = "null" -> FALSE
    [] v.t = "number" -> v.n # 0
    [] v.t = "string" -> v.s # <<>>
    [] OTHER -> TRUE

Digit == <<"0", "1", "2", "3", "4", "5", "6", "7", "8", "9">>

RECURSIVE DigitsOf(_)
\* decimal digits of a natural number, most significant first
DigitsOf(n) ==
  IF n < 10 THEN <<Digit[n + 1]>>
  ELSE DigitsOf(n \div 10) \o <<Digit[(n % 10) + 1]>>

\* Number::toString for an integer
NumToString(n) == IF n < 0 THEN <<"-">> \o DigitsOf(0 - n) ELSE DigitsOf(n)

\* the characters of `'' + v`
Concat(v) ==
  CASE v.t = "string" -> v.s
    [] v.t = "number" -> NumToString(v.n)
    [] v.t = "undefined" -> <<"undefined">>
    [] v.t = "null" -> <<"null">>
    [] OTHER -> <<"[object Object]">>

\* property read o[k]: undefined for a key the object does not have
Get(o, k) == IF k \in DOMAIN o THEN o[k] ELSE Undefined

\* property write o[k] = v
Put(o, k, v) == [x \in DOMAIN o \cup {k} |-> IF x = k THEN v ELSE o[x]]

\* object spread { ...a, ...b }
Spread(a, b) ==
  [x \in DOMAIN a \cup DOMAIN b |-> IF x \in DOMAIN b THEN b[x] ELSE a[x]]

(***************************************************************************)
(* BranchEvent: constructor and _convertParams.                             *)
(***************************************************************************)
\* the keys the constructor copies from params and _convertParams copies to
\* the payload
ParamKeys ==
  {"transactionID", "currency", "revenue", "shipping", "tax", "coupon",
   "affiliation", "description", "searchQuery", "customData", "alias"}

\* the fields _convertParams turns into strings
DecimalKeys == {"revenue", "shipping", "tax"}

\* a Branch Universal Object as a JavaScript value: a pointer to the r-th object
\* createBranchUniversalObject returned
Buo(r) == [t |-> "buo", r |-> r]
\* an array of values
Arr(a) == [t |-> "array", a |-> a]

\* the instance's fields as the class body initialises them
FieldDefaults == [k \in ParamKeys |-> Null]

\* new BranchEvent(name, contentItems, params): contentItems is an array, a
\* single object, or null; only truthy params are copied
BranchEvent(name, contentItems, params) ==
  [name |-> name,
   contentItems |->
     CASE contentItems.t = "array" -> contentItems.a
       [] Truthy(contentItems) -> <<contentItems>>
       [] OTHER -> <<>>,
   f |-> [k \in ParamKeys |->
            IF Truthy(Get(params, k)) THEN params[k] ELSE FieldDefaults[k]]]

\* the keys for which the loop of _convertParams (and of
\* createBranchUniversalObject) calls console.warn, each with the type it names
StringOnlyWarningsAll(v) ==
  IF v.t = "object"
  THEN {[key |-> k, type |-> TypeOf(v.o[k])] : k \in DOMAIN v.o}
  ELSE {}

StringOnlyWarnings(v) ==
  IF v.t = "object"
  THEN {[key |-> k, type |-> TypeOf(v.o[k])] :
           k \in {x \in DOMAIN v.o : TypeOf(v.o[x]) # "string"}}
  ELSE {}

\* whether _convertParams copies field k of the event
Copied(ev, k) == Truthy(ev.f[k])

\* the object _convertParams returns
ConvertParams(ev) ==
  [k \in {x \in ParamKeys : Copied(ev, x)} |->
     IF k \in DecimalKeys THEN Str(Concat(ev.f[k])) ELSE ev.f[k]]

\* the warnings _convertParams logs
ConvertWarnings(ev) ==
  IF Truthy(ev.f["customData"]) THEN StringOnlyWarnings(ev.f["customData"])
  ELSE {}

(***************************************************************************)
(* _identFromMessage.  A message is a sequence of tokens: the literal word  *)
(* "ident", single characters, " " and "\n".  The pattern is                 *)
(* /^.*ident\s([A-Fa-f0-9-]+).*$/ without flags: `.` matches no line        *)
(* terminator, the leading .* is greedy (the last occurrence of ident that  *)
(* lets the rest match wins) and the group is the longest run of            *)
(* hexadecimal characters and hyphens.                                      *)
(***************************************************************************)
HexChars == {"a", "b", "c", "d", "e", "f", "0", "1", "-"}
IsHex(c) == c \in HexChars
IsSpace(c) == c \in {" ", "\n"}
NoNewline(s) == \A i \in 1..Len(s) : s[i] # "\n"

RECURSIVE HexRun(_, _)
\* the longest run of [A-Fa-f0-9-] characters of msg starting at position i
HexRun(msg, i) ==
  IF i <= Len(msg) /\ IsHex(msg[i]) THEN <<msg[i]>> \o HexRun(msg, i + 1)
  ELSE <<>>

\* the pattern matches with `ident` at position p
MatchAt(msg, p) ==
  /\ p + 2 <= Len(msg)
  /\ msg[p] = "ident"
  /\ IsSpace(msg[p + 1])
  /\ IsHex(msg[p + 2])
  /\ NoNewline(SubSeq(msg, 1, p - 1))
  /\ NoNewline(SubSeq(msg, p + 2 + Len(HexRun(msg, p + 2)), Len(msg)))

Max(S) == CHOOSE x \in S : \A y \in S : y <= x
Min(S) == CHOOSE x \in S : \A y \in S : x <= y

IdentFromMessage(msg) ==
  LET ps == {p \in 1..Len(msg) : MatchAt(msg, p)}
  IN IF ps = {} THEN Null ELSE Str(HexRun(msg, Max(ps) + 2))

\* the == operator on the values compared here (strings, null, undefined)
LooseEq(a, b) == a = b \/ {a.t, b.t} \subseteq {"null", "undefined"}

(***************************************************************************)
(* The native module and its failures.                                      *)
(***************************************************************************)
\* the code of the one failure the JavaScript side recovers from
BUONotFound == "RNBranch::Error::BUONotFound"

\* the native operations _tryFunction is handed
TryOps == {"showShareSheet", "generateShortUrl"}
\* the functions of NativeModules.RNBranch used here
NativeFuncs == {"createUniversalObject", "logEvent"} \cup TryOps

\* NativeModules.RNBranch: undefined, complete, or lacking one function
RNBranchChoices ==
  {[present |-> FALSE, funcs |-> {}]} \cup
  {[present |-> TRUE, funcs |-> NativeFuncs \ S] :
     S \in {{}, {"logEvent"}, {"showShareSheet"}}}

HandleChar == <<"a", "b", "c", "d", "e", "f">>
\* the n-th ident the native module issues
Handle(n) == Str(<<HandleChar[n]>>)

\* an error object: thrown by the JavaScript engine (origin "js", no code) or a
\* rejection of a native promise; `at` tells one native rejection from another
JsError(msg) ==
  [origin |-> "js", code |-> "undefined", message |-> <<msg>>, at |-> <<0, 0>>]
NoError ==
  [origin |-> "none", code |-> "undefined", message |-> <<>>, at |-> <<0, 0>>]
TypeError == JsError("TypeError")
ValidationError == JsError("react-native-branch: identifier must be a string")

\* the texts of the native rejections tried: the native text naming each
\* ident issued, a text naming an ident never issued, a text naming none, and
\* a text of two lines
Messages ==
  {<<"n", "o", "t", " ", "f", "o", "u", "n", "d">>,
   <<"B", "U", "O", " ", "ident", " ", "f", "f", " ", "g", "o", "n", "e">>,
   <<"B", "U", "O", " ", "ident", " ", "a", "\n", "g", "o", "n", "e">>} \cup
  {<<"B", "U", "O", " ", "ident", " ">> \o h.s \o <<" ", "g", "o", "n", "e">> :
     h \in {Handle(n) : n \in 1..MaxHandles}}

NativeFailure(code, msg) ==
  [origin |-> "native", code |-> code, message |-> msg, at |-> <<0, 0>>]

\* a failure with a code the JavaScript side does not know
Fatal == NativeFailure("RNBranch::Error::Other", <<"f", "a", "i", "l", "e", "d">>)

\* what the promise of a native operation may be rejected with
Failures == {Fatal} \cup {NativeFailure(BUONotFound, m) : m \in Messages}

\* what the promise of createUniversalObject may be rejected with
CreateFailures == {Fatal}

\* the failure fl as the k-th rejection received by invocation t
Stamp(fl, t, k) == [fl EXCEPT !.at = <<t, k>>]

\* error.code == 'RNBranch::Error::BUONotFound': the catch blocks go on to
\* recreate the native object
RecoverableAny(e) == TRUE

Recoverable(e) == e.code = BUONotFound

(***************************************************************************)
(* The state.                                                               *)
(***************************************************************************)
\* number of createBranchUniversalObject calls in one behaviour
MaxRefs == 2
\* number of logEvent calls made on one event in the normalisation runs
MaxInvocations == 2

RefIds == 1..MaxRefs
\* the invocations followed: an event with its logEvent calls, or one operation
\* of a Branch Universal Object.  These runs follow one invocation from its call
\* to its result
TaskIds == {1}
\* contentMetadata objects: one the caller owns and hands to create, and for
\* each create call the {} it makes when it is handed none
CallerMeta == 0
OwnMeta(r) == r
MetaIds == {CallerMeta} \cup {OwnMeta(r) : r \in RefIds}
\* a pointer to a contentMetadata object
MetaRef(m) == [t |-> "ref", m |-> m]

VARIABLES
  RNBranch,       \* NativeModules.RNBranch
  metaHeap,       \* the contentMetadata objects
  buos,           \* the createBranchUniversalObject calls and their objects
  nextIdent,      \* how many idents the native module has issued
  nativeCreates,  \* the createUniversalObject calls the native module received
  tasks,          \* the invocations
  evicted         \* the idents whose native object has expired from the cache

vars == <<RNBranch, metaHeap, buos, nextIdent, nativeCreates, tasks, evicted>>

NoBuo ==
  [st |-> "none", identifier |-> Undefined, options |-> <<>>, entry |-> <<>>,
   bu |-> <<>>, ident |-> Undefined, err |-> NoError, warned |-> {}]

NoResult == [st |-> "none", v |-> Undefined, err |-> NoError]
Resolved(v) == [st |-> "resolved", v |-> v, err |-> NoError]
Rejected(e) == [st |-> "rejected", v |-> Undefined, err |-> e]
Thrown(e) == [st |-> "thrown", v |-> Undefined, err |-> e]

\* One invocation.  op, pc, ev, this, idents, target and fresh are the program's
\* state; result is what the caller's promise settled to; attempts, rejections,
\* creates, warned and given record what the invocation did and was handed:
\* the native calls made, the rejections received, the number of _newIdent
\* calls, the warnings of the last _convertParams, the value the caller last
\* gave each field
NoTask ==
  [op |-> "none", pc |-> "idle", ev |-> BranchEvent(Undefined, Null, <<>>),
   this |-> 0, idents |-> <<>>, target |-> 0, fresh |-> Undefined,
   result |-> NoResult, attempts |-> <<>>, rejections |-> <<>>,
   creates |-> 0, warned |-> {}, given |-> [k \in ParamKeys |-> Undefined]]

Init ==
  /\ RNBranch \in RNBranchChoices
  /\ metaHeap = [m \in MetaIds |-> <<>>]
  /\ buos = [r \in RefIds |-> NoBuo]
  /\ nextIdent = 0
  /\ nativeCreates = <<>>
  /\ tasks = [t \in TaskIds |-> NoTask]
  /\ evicted = {}

(***************************************************************************)
(* createBranchUniversalObject.                                             *)
(***************************************************************************)
\* typeof identifier === 'string'
ValidIdentifierAny(identifier) == TRUE

ValidIdentifier(identifier) == TypeOf(identifier) = "string"

\* JSON.stringify in place of the concatenation: a string gains quotes
PriceStringQuoted(v) ==
  CASE v = Undefined -> Undefined
    [] v.t = "string" -> Str(<<"\"">> \o v.s \o <<"\"">>)
    [] OTHER -> Str(Concat(v))

\* contentMetadata.price === undefined ? undefined : '' + contentMetadata.price
PriceString(v) == IF v = Undefined THEN Undefined ELSE Str(Concat(v))

\* an object as the native module receives it: the contentMetadata pointer
\* replaced by the object's content at the time of the call
Snapshot(bu, heap) ==
  [k \in DOMAIN bu |-> IF bu[k].t = "ref" THEN Obj(heap[bu[k].m]) ELSE bu[k]]

\* the record of one createUniversalObject call
NativeCreate(r, by, bu, heap) ==
  [r |-> r, by |-> by, payload |-> Snapshot(bu, heap)]

\* createBranchUniversalObject(identifier, options) up to its await: the r-th
\* call.  The validation, the warnings, the payload with the price written back
\* into the contentMetadata object, then the native call.
CreateCall(r, identifier, options) ==
  /\ buos[r].st = "none"
  /\ \A q \in 1..(r - 1) : buos[q].st # "none"
  /\ LET given == Get(options, "contentMetadata")
         contentMetadata ==
           IF Truthy(given) THEN given ELSE MetaRef(OwnMeta(r))
         cm == metaHeap[contentMetadata.m]
         custom == Get(cm, "customMetadata")
         warned == IF Truthy(custom) THEN StringOnlyWarnings(custom) ELSE {}
         bu == Spread([canonicalIdentifier |-> identifier,
                       contentMetadata |-> contentMetadata], options)
         price == PriceString(Get(cm, "price"))
         target == bu["contentMetadata"]
         heap == IF target.t = "ref"
                 THEN [metaHeap EXCEPT ![target.m] = Put(@, "price", price)]
                 ELSE metaHeap
         called == [buos[r] EXCEPT !.identifier = identifier,
                                   !.options = options,
                                   !.entry = Snapshot(options, metaHeap)]
         built == [called EXCEPT !.bu = bu, !.warned = warned]
     IN IF ~ValidIdentifier(identifier)
        THEN /\ buos' = [buos EXCEPT ![r] =
                  [called EXCEPT !.st = "rejected", !.err = ValidationError]]
             /\ UNCHANGED <<metaHeap, nativeCreates>>
        ELSE IF target.t # "ref"
        THEN \* contentMetadata: null was spread over the default: the price
             \* assignment throws
             /\ buos' = [buos EXCEPT ![r] =
                  [built EXCEPT !.st = "rejected", !.err = TypeError]]
             /\ UNCHANGED <<metaHeap, nativeCreates>>
        ELSE IF ~RNBranch.present \/ "createUniversalObject" \notin RNBranch.funcs
        THEN \* `const { ident } = null`, or a call of undefined
             /\ buos' = [buos EXCEPT ![r] =
                  [built EXCEPT !.st = "rejected", !.err = TypeError]]
             /\ metaHeap' = heap
             /\ UNCHANGED nativeCreates
        ELSE /\ buos' = [buos EXCEPT ![r] = [built EXCEPT !.st = "pending"]]
             /\ metaHeap' = heap
             /\ nativeCreates' =
                  Append(nativeCreates, NativeCreate(r, "create", bu, heap))
  /\ UNCHANGED <<RNBranch, evicted, nextIdent, tasks>>

\* the native module answers createUniversalObject with a new ident: the
\* object with its methods is returned
CreateResolve(r) ==
  /\ buos[r].st = "pending"
  /\ nextIdent < MaxHandles
  /\ nextIdent' = nextIdent + 1
  /\ buos' = [buos EXCEPT ![r].st = "ok", ![r].ident = Handle(nextIdent + 1)]
  /\ UNCHANGED <<RNBranch, evicted, metaHeap, nativeCreates, tasks>>

\* the native module rejects createUniversalObject
CreateReject(r, fl) ==
  /\ buos[r].st = "pending"
  /\ buos' = [buos EXCEPT ![r].st = "rejected", ![r].err = Stamp(fl, 0, r)]
  /\ UNCHANGED <<RNBranch, evicted, metaHeap, nextIdent, nativeCreates, tasks>>

(***************************************************************************)
(* BranchEvent.logEvent, _newIdent and _tryFunction.                        *)
(***************************************************************************)
\* what the `await` in logEvent's try block applies to.  In
\*   return await RNBranch ? RNBranch.logEvent(...) : null
\* the operand of await is RNBranch alone (await binds tighter than ?:), so the
\* promise of the native call is returned without being awaited inside the try
AwaitedInTryCall == "call"

AwaitedInTry == "RNBranch"

\* the invocation ends
Settle(t, base, res) ==
  /\ tasks' = [tasks EXCEPT ![t] = [base EXCEPT !.pc = "done", !.result = res]]
  /\ UNCHANGED <<buos, nextIdent, nativeCreates>>

\* the idents of the content items, last item first
IdentsReversed(ev) ==
  [i \in 1..Len(ev.contentItems) |->
     buos[ev.contentItems[Len(ev.contentItems) + 1 - i].r].ident]

\* this.contentItems.map((b) => b.ident)
Idents(ev) ==
  [i \in 1..Len(ev.contentItems) |-> buos[ev.contentItems[i].r].ident]

\* _newIdent() of object r, called by invocation t: the native create call
\* with the object's branchUniversalObject, or null without the native module
NewIdentCall(t, base, r) ==
  IF RNBranch.present
  THEN /\ tasks' = [tasks EXCEPT ![t] =
            [base EXCEPT !.pc = "newIdent", !.target = r,
                         !.creates = @ + 1]]
       /\ nativeCreates' =
            Append(nativeCreates,
                   NativeCreate(r, "newIdent", buos[r].bu, metaHeap))
       /\ UNCHANGED <<buos, nextIdent>>
  ELSE IF base.op = "logEvent"
  THEN \* `await null`, then the call of logEvent again
       /\ tasks' = [tasks EXCEPT ![t] =
            [base EXCEPT !.pc = "recreated", !.target = r, !.fresh = Null]]
       /\ UNCHANGED <<buos, nextIdent, nativeCreates>>
  ELSE \* null.then
       Settle(t, base, Rejected(TypeError))

\* the catch block of logEvent with error e
LogEventCatch(t, base, e) ==
  IF ~Recoverable(e)
  THEN Settle(t, base, Rejected(e))
  ELSE LET ident == IdentFromMessage(e.message)
           items == base.ev.contentItems
           hits == {i \in 1..Len(items) :
                      LooseEq(buos[items[i].r].ident, ident)}
       IN IF hits = {}
          THEN \* find returns undefined: buo._newIdent() throws
               Settle(t, base, Rejected(TypeError))
          ELSE NewIdentCall(t, base, items[Min(hits)].r)

\* the call RNBranch.logEvent(idents, this.name, this._convertParams())
LogEventNativeCall(t, base, idents) ==
  LET converted == [base EXCEPT !.warned = ConvertWarnings(base.ev)]
  IN IF "logEvent" \notin RNBranch.funcs
     THEN \* not a function: thrown inside the try block
          LogEventCatch(t, converted, TypeError)
     ELSE /\ tasks' = [tasks EXCEPT ![t] =
               [converted EXCEPT
                  !.pc = "native",
                  !.attempts = Append(@, [idents |-> idents,
                                          name |-> base.ev.name,
                                          params |-> ConvertParams(base.ev),
                                          ev |-> base.ev])]]
          /\ UNCHANGED <<buos, nextIdent, nativeCreates>>

\* logEvent() from its first statement to its first suspension
LogEventEnter(t, base) ==
  LET idents == Idents(base.ev)
  IN IF AwaitedInTry = "RNBranch"
     THEN /\ tasks' = [tasks EXCEPT ![t] =
               [base EXCEPT !.pc = "awaitRN", !.idents = idents]]
          /\ UNCHANGED <<buos, nextIdent, nativeCreates>>
     ELSE IF RNBranch.present
     THEN LogEventNativeCall(t, base, idents)
     ELSE Settle(t, base, Resolved(Null))

\* new BranchEvent(name, contentItems, params)
NewBranchEvent(t, name, contentItems, params) ==
  /\ tasks[t].pc = "idle"
  /\ \A q \in 1..(t - 1) : tasks[q].pc # "idle"
  /\ tasks' = [tasks EXCEPT ![t] =
       [@ EXCEPT !.op = "logEvent", !.pc = "constructed",
                 !.ev = BranchEvent(name, contentItems, params),
                 !.given = [k \in ParamKeys |-> Get(params, k)]]]
  /\ UNCHANGED <<RNBranch, evicted, metaHeap, buos, nextIdent, nativeCreates>>

\* event.logEvent() is called
LogEvent(t) ==
  /\ tasks[t].pc = "constructed"
  /\ LogEventEnter(t, tasks[t])
  /\ UNCHANGED <<RNBranch, evicted, metaHeap>>

\* logEvent resumes after `await RNBranch`
LogEventResume(t) ==
  /\ tasks[t].pc = "awaitRN"
  /\ IF RNBranch.present
     THEN LogEventNativeCall(t, tasks[t], tasks[t].idents)
     ELSE Settle(t, tasks[t], Resolved(Null))
  /\ UNCHANGED <<RNBranch, evicted, metaHeap>>

\* a method of object r built on _tryFunction is called: func(this.ident, ...)
TryFunction(t, r, op) ==
  /\ tasks[t].pc = "idle"
  /\ \A q \in 1..(t - 1) : tasks[q].pc # "idle"
  /\ buos[r].st = "ok"
  /\ LET base == [tasks[t] EXCEPT !.op = op, !.this = r]
     IN IF RNBranch.present /\ op \in RNBranch.funcs
        THEN /\ tasks' = [tasks EXCEPT ![t] =
                  [base EXCEPT
                     !.pc = "native",
                     !.attempts = <<[idents |-> <<buos[r].ident>>,
                                     name |-> Undefined,
                                     params |-> <<>>,
                                     ev |-> base.ev]>>]]
             /\ UNCHANGED <<buos, nextIdent, nativeCreates>>
        ELSE \* func is null: the call throws before any promise exists
             Settle(t, base, Thrown(TypeError))
  /\ UNCHANGED <<RNBranch, evicted, metaHeap>>

\* the value a native operation resolves to
NativeValue(op) == IF op = "logEvent" THEN Null ELSE Str(<<"o", "k">>)

\* the native module resolves the operation's first call
NativeResolve(t) ==
  /\ tasks[t].pc = "native"
  /\ Settle(t, tasks[t], Resolved(NativeValue(tasks[t].op)))
  /\ UNCHANGED <<RNBranch, evicted, metaHeap>>

\* the native module rejects the operation's call with failure fl
NativeReject(t, fl) ==
  /\ tasks[t].pc = "native"
  /\ LET e == Stamp(fl, t, Len(tasks[t].rejections) + 1)
         base == [tasks[t] EXCEPT !.rejections = Append(@, e)]
     IN IF base.op = "logEvent"
        THEN IF AwaitedInTry = "call"
             THEN LogEventCatch(t, base, e)
             ELSE Settle(t, base, Rejected(e))
        ELSE \* the catch callback of _tryFunction
             IF ~Recoverable(e)
             THEN Settle(t, base, Rejected(e))
             ELSE NewIdentCall(t, base, base.this)
  /\ UNCHANGED <<RNBranch, evicted, metaHeap>>

\* the native module answers the create call of _newIdent: its callback stores
\* the new ident in the object and returns it
NewIdentResolve(t) ==
  /\ tasks[t].pc = "newIdent"
  /\ nextIdent < MaxHandles
  /\ nextIdent' = nextIdent + 1
  /\ buos' = [buos EXCEPT ![tasks[t].target].ident = Handle(nextIdent + 1)]
  /\ tasks' = [tasks EXCEPT ![t].pc = "recreated",
                            ![t].fresh = Handle(nextIdent + 1)]
  /\ UNCHANGED <<RNBranch, evicted, metaHeap, nativeCreates>>

\* a rejected create call of _newIdent that clears the object's ident
NewIdentRejectClearing(t, fl) ==
  /\ tasks[t].pc = "newIdent"
  /\ buos' = [buos EXCEPT ![tasks[t].target].ident = Undefined]
  /\ tasks' = [tasks EXCEPT ![t] =
       [@ EXCEPT !.pc = "done",
                 !.result = Rejected(Stamp(fl, t, 0 - tasks[t].creates))]]
  /\ UNCHANGED <<RNBranch, evicted, metaHeap, nextIdent, nativeCreates>>

\* the native module rejects the create call of _newIdent
NewIdentReject(t, fl) ==
  /\ tasks[t].pc = "newIdent"
  /\ Settle(t, tasks[t], Rejected(Stamp(fl, t, 0 - tasks[t].creates)))
  /\ UNCHANGED <<RNBranch, evicted, metaHeap>>

\* the ident _tryFunction passes to the second call: the first call's again
RetryIdentStale(t) == tasks[t].attempts[1].idents[1]

\* the ident _tryFunction passes to the second call, func(ident, ...args): the
\* one the promise of _newIdent resolved to
RetryIdent(t) == tasks[t].fresh

\* what follows _newIdent: logEvent calls itself again, _tryFunction calls
\* func with the ident _newIdent returned
NewIdentContinue(t) ==
  /\ tasks[t].pc = "recreated"
  /\ IF tasks[t].op = "logEvent"
     THEN LogEventEnter(t, tasks[t])
     ELSE /\ tasks' = [tasks EXCEPT ![t] =
               [@ EXCEPT !.pc = "retry",
                         !.attempts = Append(@, [idents |-> <<RetryIdent(t)>>,
                                                 name |-> Undefined,
                                                 params |-> <<>>,
                                                 ev |-> tasks[t].ev])]]
          /\ UNCHANGED <<buos, nextIdent, nativeCreates>>
  /\ UNCHANGED <<RNBranch, evicted, metaHeap>>

\* the native module resolves the second call of _tryFunction
RetryResolve(t) ==
  /\ tasks[t].pc = "retry"
  /\ Settle(t, tasks[t], Resolved(NativeValue(tasks[t].op)))
  /\ UNCHANGED <<RNBranch, evicted, metaHeap>>

\* the native module rejects the second call of _tryFunction: nothing catches
RetryReject(t, fl) ==
  /\ tasks[t].pc = "retry"
  /\ LET e == Stamp(fl, t, Len(tasks[t].rejections) + 1)
     IN Settle(t, [tasks[t] EXCEPT !.rejections = Append(@, e)], Rejected(e))
  /\ UNCHANGED <<RNBranch, evicted, metaHeap>>

(***************************************************************************)
(* The protocol runs: small inputs, every answer of the native module.      *)
(***************************************************************************)
Identifiers == {Str(<<"i", "d">>), Num(1)}

ProtoOptions == {<<>>, [contentMetadata |-> MetaRef(CallerMeta)]}

ProtoParams == {[revenue |-> Num(MaxNum)]}

\* the objects create has returned
Created == {r \in RefIds : buos[r].st = "ok"}

\* the contentItems arguments tried: none, one object, an array of objects
ContentItems ==
  {Null} \cup {Buo(r) : r \in Created} \cup
  {Arr(<<Buo(r)>>) : r \in Created} \cup
  {Arr(<<Buo(pr[1]), Buo(pr[2])>>) :
     pr \in {x \in Created \X Created : x[1] # x[2]}}

Next ==
  \/ \E r \in RefIds, identifier \in Identifiers, options \in ProtoOptions :
       CreateCall(r, identifier, options)
  \/ \E r \in RefIds : CreateResolve(r)
  \/ \E r \in RefIds, fl \in CreateFailures : CreateReject(r, fl)
  \/ \E t \in TaskIds, items \in ContentItems, params \in ProtoParams :
       NewBranchEvent(t, Str(<<"e">>), items, params)
  \/ \E t \in TaskIds : LogEvent(t)
  \/ \E t \in TaskIds : LogEventResume(t)
  \/ \E t \in TaskIds, r \in RefIds, op \in TryOps : TryFunction(t, r, op)
  \/ \E t \in TaskIds : NativeResolve(t)
  \/ \E t \in TaskIds, fl \in Failures : NativeReject(t, fl)
  \/ \E t \in TaskIds : NewIdentResolve(t)
  \/ \E t \in TaskIds, fl \in CreateFailures : NewIdentReject(t, fl)
  \/ \E t \in TaskIds : NewIdentContinue(t)
  \/ \E t \in TaskIds : RetryResolve(t)
  \/ \E t \in TaskIds, fl \in Failures : RetryReject(t, fl)

Spec == Init /\ [][Next]_vars

\* The protocol runs with the progress the runtime gives: a continuation
\* waiting on an `await` or a `then` is run, and the native module settles
\* every promise it has returned.
Fairness ==
  \A t \in TaskIds :
    /\ WF_vars(LogEventResume(t))
    /\ WF_vars(NativeResolve(t) \/ \E fl \in Failures : NativeReject(t, fl))
    /\ WF_vars(NewIdentResolve(t)
                 \/ \E fl \in CreateFailures : NewIdentReject(t, fl))
    /\ WF_vars(NewIdentContinue(t))
    /\ WF_vars(RetryResolve(t) \/ \E fl \in Failures : RetryReject(t, fl))

SpecLive == Init /\ [][Next]_vars /\ Fairness

(***************************************************************************)
(* The normalisation runs: the constructor, _convertParams and the payload  *)
(* of createBranchUniversalObject on many inputs, the native module          *)
(* complete and accepting every call.  An event of these runs has no         *)
(* content items, so they exercise the event and create apart.               *)
(***************************************************************************)
\* the caller assigns a public field of its event before logging it
SetField(t, k, v) ==
  /\ tasks[t].pc = "constructed"
  /\ Cardinality({x \in ParamKeys : tasks[t].given[x] # Undefined} \cup {k})
       <= MaxParamKeys
  /\ tasks' = [tasks EXCEPT ![t].ev.f[k] = v, ![t].given[k] = v]
  /\ UNCHANGED <<RNBranch, evicted, metaHeap, buos, nextIdent, nativeCreates>>

\* the caller calls logEvent() again on an event whose last call has ended
LogEventAgain(t) ==
  /\ tasks[t].op = "logEvent"
  /\ tasks[t].pc = "done"
  /\ Len(tasks[t].attempts) < MaxInvocations
  /\ LogEventEnter(t, [tasks[t] EXCEPT !.result = NoResult])
  /\ UNCHANGED <<RNBranch, evicted, metaHeap>>

\* the caller assigns a key of the contentMetadata object it owns
CallerPutMeta(k, v) ==
  /\ metaHeap' = [metaHeap EXCEPT ![CallerMeta] = Put(@, k, v)]
  /\ UNCHANGED <<RNBranch, evicted, buos, nextIdent, nativeCreates, tasks>>

NumInputs == {0 - MaxNum, 0, MaxNum}
StrInputs == {<<>>, <<"1", "2">>}
\* the values tried for a field meant for a string
Strings == {Null} \cup {Str(x) : x \in StrInputs}
\* the values tried for a field meant for a number: a price, revenue, shipping
\* or tax
Scalars == Strings \cup {Num(n) : n \in NumInputs}
\* the values tried for customData and customMetadata
CustomValues ==
  {Null} \cup
  {Obj(o) : o \in UNION {[K -> {Str(<<"x">>), Num(5)}] : K \in SUBSET {"a", "b"}}}
ValuesOf(k) ==
  IF k \in {"customData", "customMetadata"} THEN CustomValues
  ELSE IF k \in DecimalKeys \cup {"price"} THEN Scalars
  ELSE Strings

\* the params objects tried: up to MaxParamKeys keys
NormParams ==
  UNION {{p \in [K -> Scalars \cup CustomValues] :
            \A k \in K : p[k] \in ValuesOf(k)} :
         K \in {S \in SUBSET ParamKeys : Cardinality(S) <= MaxParamKeys}}

\* the options objects tried
NormOptions ==
  {Spread(a, b) :
     a \in {<<>>, [contentMetadata |-> Null],
            [contentMetadata |-> MetaRef(CallerMeta)]},
     b \in {<<>>, [title |-> Str(<<"T">>)]}}

NoEvents == \A t \in TaskIds : tasks[t].pc = "idle"
NoCreates ==
  /\ \A r \in RefIds : buos[r].st = "none"
  /\ \A m \in MetaIds : metaHeap[m] = <<>>

InitNorm ==
  /\ Init
  /\ RNBranch = [present |-> TRUE, funcs |-> NativeFuncs]

NextNorm ==
  \/ /\ NoEvents
     /\ \A r \in RefIds : buos[r].st = "none"
     /\ \E k \in {"price", "customMetadata"} :
          \E v \in ValuesOf(k) : CallerPutMeta(k, v)
  \/ /\ NoEvents
     /\ \E r \in RefIds, options \in NormOptions :
          CreateCall(r, Str(<<"i", "d">>), options)
  \/ \E r \in RefIds : CreateResolve(r)
  \/ /\ NoCreates
     /\ \E t \in {x \in TaskIds : tasks[x].pc = "idle"} :
          \E params \in NormParams :
            NewBranchEvent(t, Str(<<"e">>), Null, params)
  \/ \E t \in TaskIds, k \in ParamKeys : \E v \in ValuesOf(k) : SetField(t, k, v)
  \/ \E t \in TaskIds : LogEvent(t)
  \/ \E t \in TaskIds : LogEventResume(t)
  \/ \E t \in TaskIds : NativeResolve(t)
  \/ \E t \in TaskIds : LogEventAgain(t)

SpecNorm == InitNorm /\ [][NextNorm]_vars

(***************************************************************************)
(* The cache runs: the native module complete and answering by the state of *)
(* its cache.  An operation is rejected with BUONotFound exactly when its   *)
(* call carries an ident whose native object has expired, the message       *)
(* naming that ident; an ident createUniversalObject returns is in the      *)
(* cache.  Two invocations run interleaved.                                 *)
(***************************************************************************)
RaceTaskIds == {1, 2}

\* the native object of an ident issued earlier expires from the cache
Evict(h) ==
  /\ h \in {Handle(n) : n \in 1..nextIdent} \ evicted
  /\ evicted' = evicted \cup {h}
  /\ UNCHANGED <<RNBranch, metaHeap, buos, nextIdent, nativeCreates, tasks>>

\* the idents of the last native call of invocation t
PendingIdents(t) == tasks[t].attempts[Len(tasks[t].attempts)].idents

\* the positions of that call that carry an expired ident
StaleIn(t) ==
  {i \in 1..Len(PendingIdents(t)) : PendingIdents(t)[i] \in evicted}

\* the rejection of the native module for the expired ident h
NotFound(h) ==
  NativeFailure(BUONotFound,
                <<"B", "U", "O", " ", "ident", " ">> \o h.s
                  \o <<" ", "g", "o", "n", "e">>)

\* the native module answers the first call of invocation t from its cache
CacheAnswer(t) ==
  /\ tasks[t].pc = "native"
  /\ IF StaleIn(t) = {}
     THEN NativeResolve(t)
     ELSE \E i \in StaleIn(t) : NativeReject(t, NotFound(PendingIdents(t)[i]))

\* the native module answers the second call of _tryFunction from its cache
CacheAnswerRetry(t) ==
  /\ tasks[t].pc = "retry"
  /\ IF StaleIn(t) = {}
     THEN RetryResolve(t)
     ELSE \E i \in StaleIn(t) : RetryReject(t, NotFound(PendingIdents(t)[i]))

\* the values the caller writes into its contentMetadata after create
LateMeta == {Num(1)}

\* the single-object operation of the cache runs
CacheOps == {"generateShortUrl"}

\* the contentItems of the events of the cache runs: every object created, in
\* the order of creation
AllCreated ==
  Arr([i \in 1..Cardinality(Created) |-> Buo(i)])

InitCache ==
  /\ RNBranch = [present |-> TRUE, funcs |-> NativeFuncs]
  /\ metaHeap = [m \in MetaIds |-> <<>>]
  /\ buos = [r \in RefIds |-> NoBuo]
  /\ nextIdent = 0
  /\ nativeCreates = <<>>
  /\ tasks = [t \in RaceTaskIds |-> NoTask]
  /\ evicted = {}

\* no invocation has started: the objects are created, and their native objects
\* expire, before the invocations run
NoneStarted == \A t \in RaceTaskIds : tasks[t].pc = "idle"

NextCache ==
  \/ /\ NoneStarted
     /\ evicted = {}
     /\ \E r \in RefIds :
          CreateCall(r, Str(<<"i", "d">>), [contentMetadata |-> MetaRef(CallerMeta)])
  \/ /\ NoneStarted
     /\ evicted = {}
     /\ \E r \in RefIds : CreateResolve(r)
  \/ /\ NoneStarted
     /\ \A r \in RefIds : buos[r].st # "pending"
     /\ \E h \in {Handle(n) : n \in 1..MaxHandles} : Evict(h)
  \/ /\ NoneStarted
     /\ Created # {}
     /\ \A r \in RefIds : buos[r].st # "pending"
     /\ \E v \in LateMeta : CallerPutMeta("price", v)
  \/ /\ Created # {}
     /\ \A r \in RefIds : buos[r].st # "pending"
     /\ \E t \in RaceTaskIds, params \in ProtoParams :
          NewBranchEvent(t, Str(<<"e">>), AllCreated, params)
  \/ \E t \in RaceTaskIds : LogEvent(t)
  \/ \E t \in RaceTaskIds : LogEventResume(t)
  \/ /\ \A r \in RefIds : buos[r].st # "pending"
     /\ \E t \in RaceTaskIds, r \in RefIds, op \in CacheOps :
          TryFunction(t, r, op)
  \/ \E t \in RaceTaskIds : CacheAnswer(t)
  \/ \E t \in RaceTaskIds : NewIdentResolve(t)
  \/ \E t \in RaceTaskIds, fl \in CreateFailures : NewIdentReject(t, fl)
  \/ \E t \in RaceTaskIds : NewIdentContinue(t)
  \/ \E t \in RaceTaskIds : CacheAnswerRetry(t)

SpecCache == InitCache /\ [][NextCache]_vars

(***************************************************************************)
(* Properties of the protocol runs (Spec).                                  *)
(***************************************************************************)
\* the failure e names an ident among those call number j of invocation t passed
NamesPassedIdent(t, j, e) ==
  \E i \in 1..Len(tasks[t].attempts[j].idents) :
     IdentFromMessage(e.message) = tasks[t].attempts[j].idents[i]

\* the objects whose ident the first call of invocation t passed as h
PassedAs(t, h) ==
  IF tasks[t].op = "logEvent"
  THEN {tasks[t].ev.contentItems[i].r :
          i \in {x \in 1..Len(tasks[t].ev.contentItems) :
                   tasks[t].attempts[1].idents[x] = h}}
  ELSE {tasks[t].this}

\* the create call of _newIdent was rejected
RecreationFailed(t) ==
  tasks[t].result.st = "rejected" /\ tasks[t].result.err.at[2] < 0

\* C1: recovery correctness.  When the native module rejects an operation
\* (logEvent or an operation run through _tryFunction) once, with the code
\* BUONotFound and a message naming the ident H1 the call passed, and rejects
\* nothing after that, the caller's call resolves, the object's ident is a new
\* value different from H1, and createUniversalObject was called exactly once.
C1_RecoveryCorrectness ==
  \A t \in TaskIds :
    LET tk == tasks[t] IN
    ( /\ tk.pc = "done"
      /\ Len(tk.rejections) = 1
      /\ tk.rejections[1].code = BUONotFound
      /\ NamesPassedIdent(t, 1, tk.rejections[1])
      /\ ~RecreationFailed(t) )
    => /\ tk.result.st = "resolved"
       /\ tk.creates = 1
       /\ \A r \in PassedAs(t, IdentFromMessage(tk.rejections[1].message)) :
            /\ buos[r].ident # IdentFromMessage(tk.rejections[1].message)
            /\ buos[r].ident = tk.fresh

\* invocation t receives a rejection with a code other than BUONotFound in
\* this step
FatalRejectionStep(t) ==
  /\ Len(tasks'[t].rejections) = Len(tasks[t].rejections) + 1
  /\ tasks'[t].rejections[Len(tasks'[t].rejections)].code # BUONotFound

\* C2: fatal passthrough.  When the native operation of logEvent or of a
\* _tryFunction operation is rejected with a code other than BUONotFound, the
\* caller's call rejects with that same failure object, no createUniversalObject
\* call is made, the operation is not attempted again and no ident changes.
C2_FatalPassthrough ==
  [][\A t \in TaskIds :
       /\ FatalRejectionStep(t) =>
            /\ tasks'[t].pc = "done"
            /\ tasks'[t].result =
                 Rejected(tasks'[t].rejections[Len(tasks'[t].rejections)])
            /\ tasks'[t].result.err.at = <<t, Len(tasks'[t].rejections)>>
            /\ nativeCreates' = nativeCreates
            /\ tasks'[t].attempts = tasks[t].attempts
            /\ \A r \in RefIds : buos'[r].ident = buos[r].ident
       /\ tasks[t].pc = "done" => tasks'[t] = tasks[t]]_vars

\* C2 happens: an operation run through _tryFunction ended on a fatal rejection
\* of its first call.
C2_Witness ==
  \E t \in TaskIds :
    /\ tasks[t].op \in TryOps
    /\ tasks[t].pc = "done"
    /\ Len(tasks[t].rejections) = 1
    /\ tasks[t].rejections[1] = Stamp(Fatal, t, 1)
    /\ tasks[t].result = Rejected(Stamp(Fatal, t, 1))
    /\ tasks[t].creates = 0

\* the failure e, rejecting a call of logEvent invocation t, has the code
\* BUONotFound and a message from which no ident can be extracted or whose
\* ident is the current ident of none of the event's content items
Unmatched(t, e) ==
  /\ e.code = BUONotFound
  /\ \/ IdentFromMessage(e.message) = Null
     \/ \A i \in 1..Len(tasks[t].ev.contentItems) :
          buos[tasks[t].ev.contentItems[i].r].ident # IdentFromMessage(e.message)

\* C3: ambiguous-message safety.  When the native call of logEvent is rejected
\* with BUONotFound and no ident can be extracted from the message, or the
\* ident extracted is the current ident of none of the event's content items,
\* logEvent rejects with the original native failure, makes no
\* createUniversalObject call and no further logEvent call, and changes no ident.
C3_AmbiguousMessageSafety ==
  [][\A t \in TaskIds :
       ( /\ tasks[t].op = "logEvent"
         /\ Len(tasks'[t].rejections) = Len(tasks[t].rejections) + 1
         /\ Unmatched(t, tasks'[t].rejections[Len(tasks'[t].rejections)]) )
       => /\ tasks'[t].pc = "done"
          /\ tasks'[t].result =
               Rejected(tasks'[t].rejections[Len(tasks'[t].rejections)])
          /\ nativeCreates' = nativeCreates
          /\ tasks'[t].attempts = tasks[t].attempts
          /\ \A r \in RefIds : buos'[r].ident = buos[r].ident]_vars

\* C3 happens: a logEvent with a content item was rejected with BUONotFound
\* naming an ident that is not the item's, and ended rejected with that failure.
C3_Witness ==
  \E t \in TaskIds :
    LET tk == tasks[t] IN
    /\ tk.op = "logEvent"
    /\ tk.pc = "done"
    /\ tk.ev.contentItems # <<>>
    /\ Len(tk.rejections) = 1
    /\ IdentFromMessage(tk.rejections[1].message) # Null
    /\ Unmatched(t, tk.rejections[1])
    /\ tk.result = Rejected(tk.rejections[1])

\* C4: the caller-visible outcome of logEvent, in the case the claim singles
\* out: as long as every native rejection has the code BUONotFound and names an
\* ident the rejected call passed, and no recreation fails, logEvent does not
\* reject: it resolves to null.
C4_LogEventOutcome ==
  \A t \in TaskIds :
    LET tk == tasks[t] IN
    ( /\ tk.op = "logEvent"
      /\ tk.pc = "done"
      /\ \A j \in 1..Len(tk.rejections) :
           /\ tk.rejections[j].code = BUONotFound
           /\ NamesPassedIdent(t, j, tk.rejections[j])
      /\ ~RecreationFailed(t)
      /\ tk.attempts # <<>> )
    => tk.result = Resolved(Null)

\* C5: without the native module, createBranchUniversalObject with a string
\* identifier resolves to an object whose ident is null, and logEvent resolves
\* to null without a native call.
C5_AbsentBoundary ==
  ~RNBranch.present =>
    /\ \A r \in RefIds :
         (buos[r].st # "none" /\ TypeOf(buos[r].identifier) = "string")
         => buos[r].st = "ok" /\ buos[r].ident = Null
    /\ \A t \in TaskIds :
         (tasks[t].op = "logEvent" /\ tasks[t].pc = "done")
         => tasks[t].result = Resolved(Null) /\ tasks[t].attempts = <<>>

\* C9: createBranchUniversalObject with an identifier that is not a string
\* rejects at once with an error, makes no native call, issues no ident and
\* builds nothing.
C9_ValidationError ==
  \A r \in RefIds :
    (buos[r].st # "none" /\ TypeOf(buos[r].identifier) # "string")
    => /\ buos[r].st = "rejected"
       /\ buos[r].err = ValidationError
       /\ buos[r].ident = Undefined
       /\ \A i \in 1..Len(nativeCreates) : nativeCreates[i].r # r

\* C9 happens: a create call with a number for identifier was rejected while
\* the native module was there to be called.
C9_Witness ==
  \E r \in RefIds :
    /\ buos[r].identifier = Num(1)
    /\ buos[r].st = "rejected"
    /\ RNBranch.present
    /\ "createUniversalObject" \in RNBranch.funcs

\* a logEvent call of invocation t has been made and has not ended
LogEventInFlight(t) ==
  /\ tasks[t].op = "logEvent"
  /\ tasks[t].pc \notin {"idle", "constructed", "done"}

\* C12: guard against infinite retry.  Every logEvent invocation ends, resolved
\* or rejected, after finitely many calls of RNBranch.logEvent (one, in these
\* runs), whatever the native module answers, rejections with BUONotFound naming
\* the object's current ident included.
C12_LogEventTerminates ==
  /\ [](\A t \in TaskIds :
          tasks[t].op = "logEvent" =>
            /\ Len(tasks[t].attempts) <= 1
            /\ tasks[t].creates = 0)
  /\ \A t \in TaskIds : LogEventInFlight(t) ~> tasks[t].pc = "done"

\* C12 happens: a logEvent invocation has ended after the native module
\* rejected its call with BUONotFound naming the ident the call carried.
C12_Witness ==
  \E t \in TaskIds :
    /\ tasks[t].op = "logEvent"
    /\ tasks[t].pc = "done"
    /\ Len(tasks[t].rejections) = 1
    /\ tasks[t].rejections[1].code = BUONotFound
    /\ NamesPassedIdent(t, 1, tasks[t].rejections[1])
    /\ buos[tasks[t].ev.contentItems[1].r].ident = tasks[t].attempts[1].idents[1]

\* the ident the message of the first rejection of invocation t names, if any
FirstNamed(t) == IdentFromMessage(tasks[t].rejections[1].message)

\* C13: the single-object operations verify the stale ident.  For an operation
\* run through _tryFunction, a rejection with BUONotFound whose message names
\* another ident than the object's, or none, causes no createUniversalObject
\* call and leaves the object's ident as it was.
C13_TryFunctionVerifies ==
  \A t \in TaskIds :
    ( /\ tasks[t].op \in TryOps
      /\ tasks[t].rejections # <<>>
      /\ tasks[t].rejections[1].code = BUONotFound
      /\ FirstNamed(t) # tasks[t].attempts[1].idents[1] )
    => /\ tasks[t].creates = 0
       /\ buos[tasks[t].this].ident = tasks[t].attempts[1].idents[1]

\* C14: stale-ident failures are absorbed, for the operations run through
\* _tryFunction: the caller's call is not rejected with a failure of code
\* BUONotFound unless that failure names no ident the rejected call carried or
\* the createUniversalObject call of the recovery failed; so a second call
\* rejected with BUONotFound naming the new ident is recovered from again.
C14_StaleAbsorbed ==
  \A t \in TaskIds :
    ( /\ tasks[t].op \in TryOps
      /\ tasks[t].pc = "done"
      /\ tasks[t].result.st = "rejected"
      /\ tasks[t].result.err.code = BUONotFound )
    => \/ RecreationFailed(t)
       \/ ~NamesPassedIdent(t, Len(tasks[t].rejections), tasks[t].result.err)

C19_MissingNativeNoop ==
  \A t \in TaskIds :
    ( /\ tasks[t].op \in TryOps
      /\ tasks[t].pc = "done"
      /\ (~RNBranch.present \/ tasks[t].op \notin RNBranch.funcs) )
    => tasks[t].result.st = "resolved"

\* C20: bounded retry of the single-object operations.  An operation run
\* through _tryFunction makes at most two calls of its native function and at
\* most one createUniversalObject call, whatever the native module answers,
\* and the second call carries the ident that create call returned.
C20_BoundedRetry ==
  \A t \in TaskIds :
    tasks[t].op \in TryOps =>
      /\ Len(tasks[t].attempts) <= 2
      /\ tasks[t].creates <= 1
      /\ Len(tasks[t].attempts) = 2 =>
           /\ tasks[t].creates = 1
           /\ tasks[t].attempts[2].idents = <<tasks[t].fresh>>
           /\ tasks[t].fresh \in {Handle(n) : n \in 1..nextIdent}
           /\ tasks[t].fresh # tasks[t].attempts[1].idents[1]
           /\ buos[tasks[t].this].ident = tasks[t].fresh

\* C20 happens: both calls of an operation were rejected with BUONotFound and
\* the operation ended there.
C20_Witness ==
  \E t \in TaskIds :
    /\ tasks[t].op \in TryOps
    /\ tasks[t].pc = "done"
    /\ Len(tasks[t].attempts) = 2
    /\ Len(tasks[t].rejections) = 2
    /\ tasks[t].rejections[2].code = BUONotFound
    /\ tasks[t].creates = 1

(***************************************************************************)
(* Properties of the normalisation runs (SpecNorm).                         *)
(***************************************************************************)
\* the contentMetadata the caller handed the r-th create call, as it was at the
\* call: an object value, or what stood in its place
GivenMetadata(r) == Get(buos[r].entry, "contentMetadata")
\* key k of that contentMetadata; undefined when there was none
GivenMeta(r, k) ==
  IF GivenMetadata(r).t = "object" THEN Get(GivenMetadata(r).o, k) ELSE Undefined
\* the contentMetadata of the payload of the i-th createUniversalObject call
SentMetadata(i) == nativeCreates[i].payload["contentMetadata"].o
\* a caller left a field with this value unset
Unset(v) == v \in {Null, Undefined}

\* C6: numeric coercion.  Every number (zero and negative numbers too) given
\* as contentMetadata.price to create and as revenue, shipping or tax to an
\* event is in the payload the native module receives as the string of its
\* decimal representation.
C6_NumericCoercion ==
  /\ \A t \in TaskIds : \A j \in 1..Len(tasks[t].attempts) :
       \A k \in DecimalKeys :
         tasks[t].given[k].t = "number" =>
           /\ k \in DOMAIN tasks[t].attempts[j].params
           /\ tasks[t].attempts[j].params[k] =
                Str(NumToString(tasks[t].given[k].n))
  /\ \A i \in 1..Len(nativeCreates) :
       GivenMeta(nativeCreates[i].r, "price").t = "number" =>
         /\ "price" \in DOMAIN SentMetadata(i)
         /\ SentMetadata(i)["price"] =
              Str(NumToString(GivenMeta(nativeCreates[i].r, "price").n))

\* C7: omit-absent.  The payload has no key for a field the caller left unset
\* (null or undefined) and has the key of every field the caller set; for the
\* payload _convertParams builds and for the contentMetadata of create's
\* payload, the price key included.
C7_OmitAbsent ==
  /\ \A t \in TaskIds : \A j \in 1..Len(tasks[t].attempts) :
       \A k \in ParamKeys :
         k \in DOMAIN tasks[t].attempts[j].params <=> ~Unset(tasks[t].given[k])
  /\ \A i \in 1..Len(nativeCreates) :
       \A k \in {"price", "customMetadata"} :
         k \in DOMAIN SentMetadata(i)
           <=> ~Unset(GivenMeta(nativeCreates[i].r, k))

\* the warnings due for the map v: one for each key whose value is no string,
\* naming the key and the value's type
WarningsDue(v) ==
  {w \in [key : DOMAIN v.o, type : {"number", "object", "undefined"}] :
     /\ v.o[w.key].t # "string"
     /\ w.type = TypeOf(v.o[w.key])}

\* C8: custom-data warning, not rejection.  For a customData map of an event
\* and a customMetadata map of create, exactly the keys whose value is not a
\* string are warned about, each with its key and the value's type; the
\* operation does not fail for it, and the native module receives the map with
\* every key and value as given.
C8_CustomDataWarning ==
  /\ \A t \in TaskIds :
       LET tk == tasks[t]
           cd == tk.given["customData"]
       IN (tk.attempts # <<>> /\ cd.t = "object") =>
            /\ tk.warned = WarningsDue(cd)
            /\ tk.result.st \in {"none", "resolved"}
            /\ \A j \in 1..Len(tk.attempts) :
                 /\ "customData" \in DOMAIN tk.attempts[j].params
                 /\ tk.attempts[j].params["customData"] = cd
  /\ \A r \in RefIds :
       LET cm == GivenMeta(r, "customMetadata")
       IN (buos[r].st # "none" /\ cm.t = "object"
             /\ TypeOf(buos[r].identifier) = "string") =>
            /\ buos[r].warned = WarningsDue(cm)
            /\ buos[r].st \in {"pending", "ok"}
            /\ \E i \in 1..Len(nativeCreates) :
                 /\ nativeCreates[i].r = r
                 /\ "customMetadata" \in DOMAIN SentMetadata(i)
                 /\ SentMetadata(i)["customMetadata"] = cm

\* C8 happens: an event with customData { a: "x", b: 5 } was logged, with one
\* warning, for b and its type number.
C8_Witness ==
  \E t \in TaskIds :
    /\ tasks[t].given["customData"] =
         Obj([k \in {"a", "b"} |-> IF k = "a" THEN Str(<<"x">>) ELSE Num(5)])
    /\ tasks[t].pc = "done"
    /\ tasks[t].result = Resolved(Null)
    /\ tasks[t].warned = {[key |-> "b", type |-> "number"]}

\* C10: idempotent normalisation.  Two _convertParams calls on an unchanged
\* event give equal payloads, and two create calls with the same identifier
\* and the same options object, the second made after the first has run, send
\* equal payloads.
C10_IdempotentNormalisation ==
  /\ \A t \in TaskIds : \A i, j \in 1..Len(tasks[t].attempts) :
       tasks[t].attempts[i].ev = tasks[t].attempts[j].ev
         => tasks[t].attempts[i].params = tasks[t].attempts[j].params
  /\ \A i, j \in 1..Len(nativeCreates) :
       LET q == nativeCreates[i].r
           r == nativeCreates[j].r
       IN ( /\ buos[q].identifier = buos[r].identifier
            /\ buos[q].options = buos[r].options )
          => nativeCreates[i].payload = nativeCreates[j].payload

\* C10 happens: the caller's contentMetadata held the number MaxNum as price
\* when the first create call was made and the string the first call wrote when
\* the second was made with the same arguments.
C10_Witness ==
  /\ Len(nativeCreates) = 2
  /\ buos[1].identifier = buos[2].identifier
  /\ buos[1].options = buos[2].options
  /\ GivenMeta(1, "price") = Num(MaxNum)
  /\ GivenMeta(2, "price") = Str(NumToString(MaxNum))
  /\ SentMetadata(1)["price"] = Str(NumToString(MaxNum))
  /\ SentMetadata(2)["price"] = Str(NumToString(MaxNum))

(***************************************************************************)
(* Properties of the cache runs (SpecCache).                                *)
(***************************************************************************)
\* the objects whose ident, as the first call of invocation t carried it, had
\* expired
StaleItems(t) ==
  {tasks[t].ev.contentItems[i].r :
     i \in {x \in 1..Len(tasks[t].attempts[1].idents) :
              tasks[t].attempts[1].idents[x] \in evicted}}

\* C11: concurrent recovery on a shared object.  When two logEvent invocations
\* carry the same objects (the events of these runs carry every object created)
\* and the native module rejects exactly the calls that carry an expired ident,
\* naming it, neither invocation rejects, in whatever order their steps
\* interleave.
C11_ConcurrentRecovery ==
  (\A t \in RaceTaskIds : tasks[t].op = "logEvent")
  => \A t \in RaceTaskIds : tasks[t].result.st \in {"none", "resolved"}

\* C15: independent staleness of several objects.  A single logEvent
\* invocation on an event of whose objects k have an expired ident, the native
\* module reporting one expired ident per rejected call and accepting new
\* idents and every create call, resolves after exactly k createUniversalObject calls, one for each
\* of these objects, and exactly k + 1 calls of RNBranch.logEvent.
C15_IndependentStaleness ==
  \A t \in RaceTaskIds :
    ( /\ tasks[t].op = "logEvent"
      /\ tasks[t].pc = "done"
      /\ ~RecreationFailed(t)
      /\ \A q \in RaceTaskIds \ {t} : tasks[q].pc = "idle" )
    => LET k == Cardinality(StaleItems(t))
       IN /\ tasks[t].result = Resolved(Null)
          /\ tasks[t].creates = k
          /\ Len(tasks[t].attempts) = k + 1
          /\ \A r \in StaleItems(t) :
               Cardinality({i \in 1..Len(nativeCreates) :
                              /\ nativeCreates[i].r = r
                              /\ nativeCreates[i].by = "newIdent"}) = 1

\* C18: recreation reuses the original descriptor.  Every createUniversalObject
\* call _newIdent makes for an object carries a payload equal to the payload of
\* the call createBranchUniversalObject made for it, also after the caller has
\* changed the contentMetadata object it passed to create.
C18_RecreationPayload ==
  \A i, j \in 1..Len(nativeCreates) :
    ( /\ nativeCreates[i].r = nativeCreates[j].r
      /\ nativeCreates[i].by = "create"
      /\ nativeCreates[j].by = "newIdent" )
    => nativeCreates[j].payload = nativeCreates[i].payload

\* the idents the native module has returned so far
Issued == {Handle(n) : n \in 1..nextIdent}

\* a createUniversalObject call made for object r is waiting for its answer
CreatePending(r) ==
  \/ buos[r].st = "pending"
  \/ \E t \in RaceTaskIds : tasks[t].pc = "newIdent" /\ tasks[t].target = r

\* C17: validity of the ident.  In every state the ident of an object created
\* with the native module there is an ident a createUniversalObject call made
\* for that object returned, never null; it is written only when such a call
\* succeeds, with the ident returned, and a rejected call leaves it as it was;
\* under every interleaving of two invocations.
C17_IdentValidity ==
  /\ [](\A r \in RefIds :
          buos[r].st = "ok" =>
            /\ buos[r].ident \in Issued
            /\ \A q \in RefIds \ {r} :
                 buos[q].st = "ok" => buos[q].ident # buos[r].ident)
  /\ [][\A r \in RefIds :
          buos'[r].ident # buos[r].ident =>
            /\ CreatePending(r)
            /\ nextIdent' = nextIdent + 1
            /\ buos'[r].ident = Handle(nextIdent')
            /\ \A q \in RefIds \ {r} : buos'[q].ident = buos[q].ident]_vars

\* C17 happens: of two operations on the same Branch Universal Object, both
\* rejected with BUONotFound, one has recreated the native object and the
\* create call of the other was rejected: the object holds the ident the first
\* was returned.
C17_Witness ==
  /\ tasks[1].op \in TryOps /\ tasks[2].op \in TryOps
  /\ tasks[1].this = tasks[2].this
  /\ tasks[1].creates = 1 /\ tasks[2].creates = 1
  /\ tasks[1].fresh # Undefined
  /\ RecreationFailed(2)
  /\ buos[tasks[1].this].ident = tasks[1].fresh

====
